---- MODULE Spec2Model ----
(***************************************************************************)
(* Model of the address resolver client, global/resolve_clnt.c:            *)
(* resolve_clnt_init, resolve_clnt_query (one-entry cache, retry loop) and *)
(* the TEST driver's use of one reused reply buffer.                       *)
(*                                                                         *)
(* Strings are drawn from small sets; the flags word is modelled as the    *)
(* set of the bits that are on.  A VSTRING pointer that is 0 is NULL.      *)
(* The address is a const char *: its storage is either the caller's own   *)
(* (alias = FALSE) or the storage of reply->recipient (alias = TRUE).      *)
(***************************************************************************)
EXTENDS Integers, Sequences, FiniteSets, TLC

\* Saturation point of the per-query counters (the loop itself is unbounded).
MaxCount == 2

NULL == "(null)"

Addrs == {"", "a", "b"}
Transports == {"", "smtp"}
Nexthops == {"", "mx"}
Recipients == {"", "a"}
FlagBits == {"ERROR", "FAIL", "UNKNOWN"}
FlagVals == {{}, {"FAIL"}, {"ERROR", "UNKNOWN"}}
Errnos == {"EPIPE", "ENOENT", "EIO"}

\* A reply frame as the daemon puts it on the wire, keyed by attribute name.
Frames == [transport : Transports, nexthop : Nexthops,
           recipient : Recipients, flags : FlagVals]

NoFrame == [n |-> -2, frame |-> [transport |-> "", nexthop |-> "", recipient |-> "", flags |-> {}]]
NoHist == [addr |-> NULL, reply |-> [transport |-> "", nexthop |-> "", recipient |-> "", flags |-> {}]]

VARIABLES
    pc,                  \* position of the single flow of control
    addr,                \* the address argument of the query in progress
    alias,               \* addr == STR(reply->recipient)
    reply,               \* the caller's RESOLVE_REPLY
    last_addr,           \* static VSTRING *last_addr
    last_reply,          \* static RESOLVE_REPLY last_reply
    rewrite_clnt_stream, \* "null" or "created"
    msg_verbose,
    errno,               \* errno left by the failed call of this iteration
    warned,              \* warning logged in the current iteration
    sent,                \* request written in the current iteration
    rx,                  \* attr_scan of the current iteration: frame and count
    naccess, nsleep, nrecover,  \* per query, saturating
    fresh,               \* the same query run on a resolve_clnt_init() buffer
    reused,              \* the query was entered with a buffer that was not fresh
    created,             \* the query in progress called clnt_stream_create
    hist                 \* address and result of the last query that returned

vars == <<pc, addr, alias, reply, last_addr, last_reply, rewrite_clnt_stream,
          msg_verbose, errno, warned, sent, rx,
          naccess, nsleep, nrecover, fresh, reused, created, hist>>

Inc(n) == IF n < MaxCount THEN n + 1 ELSE n

\* What attr_scan never looked at: the attributes after the n converted ones.
Unread(f, n) ==
    /\ n < 1 => f.transport = ""
    /\ n < 2 => f.nexthop = ""
    /\ n < 3 => f.recipient = ""
    /\ n < 4 => f.flags = {}

\* static RESOLVE_REPLY last_reply before the lazy initialization
NullReply == [transport |-> NULL, nexthop |-> NULL, recipient |-> NULL, flags |-> {}]

resolve_clnt_init == [transport |-> "", nexthop |-> "", recipient |-> "", flags |-> {}]

\* if (last_addr == 0) { last_addr = vstring_alloc(100); resolve_clnt_init(&last_reply); }
LazyInitAddr(la) == IF la = NULL THEN "" ELSE la
LazyInitReply(la, lr) == IF la = NULL THEN resolve_clnt_init ELSE lr

\* Mutation: the sanity check is missing.
SanityCheckFails_Never(al) == FALSE

\* if (addr == STR(reply->recipient)) msg_panic(...)
SanityCheckFails(al) == al

\* Mutation: the test for an empty address is missing.
CacheHit_NoEmptyTest(a, la) == a = la

\* if (*addr && strcmp(addr, STR(last_addr)) == 0)
CacheHit(a, la) == a # "" /\ a = la

\* Mutation: the cache-hit branch copies the next hop only when there is one.
CachePeek_SkipEmptyNexthop(buf, lr) ==
    [transport |-> lr.transport,
     nexthop |-> IF lr.nexthop = "" THEN buf.nexthop ELSE lr.nexthop,
     recipient |-> lr.recipient, flags |-> lr.flags]

\* Mutation: the cache-hit branch forgets to copy the flags.
CachePeek_KeepFlags(buf, lr) ==
    [transport |-> lr.transport, nexthop |-> lr.nexthop,
     recipient |-> lr.recipient, flags |-> buf.flags]

\* the four copies of the cache-hit branch
CachePeek(buf, lr) ==
    [transport |-> lr.transport, nexthop |-> lr.nexthop,
     recipient |-> lr.recipient, flags |-> lr.flags]

\* Mutation: the stream is created without looking for an existing one.
StreamMissing_Always(s) == TRUE

\* if (rewrite_clnt_stream == 0)
StreamMissing(s) == s = "null"

\* if (rewrite_clnt_stream == 0) rewrite_clnt_stream = clnt_stream_create(...)
EnsureStream(s) == IF StreamMissing(s) THEN "created" ELSE s

\* What addr points at once attr_scan has written the reply: the address is
\* the caller's own storage, or (al) the storage of reply->recipient.
AddrAfterScan(al, a, buf) == IF al THEN buf.recipient ELSE a

\* the request attributes handed to attr_print
Request(a) == [request |-> "resolve", address |-> a]

\* Mutation: only EPIPE is taken for an expected end of connection.
WarnIO_OnlyEpipe(v, e) == v \/ e # "EPIPE"

\* if (msg_verbose || (errno != EPIPE && errno != ENOENT)) msg_warn(...)
WarnIO(v, e) == v \/ (e # "EPIPE" /\ e # "ENOENT")

\* Mutation: the next hop and recipient targets are swapped.
ScanTargets_SwapHopRecipient ==
    << <<"transport", "transport">>, <<"nexthop", "recipient">>,
       <<"recipient", "nexthop">>, <<"flags", "flags">> >>

\* attribute name -> member of reply, in the order of the attr_scan call
ScanTargets == << <<"transport", "transport">>, <<"nexthop", "nexthop">>,
                  <<"recipient", "recipient">>, <<"flags", "flags">> >>

\* attr_scan: the first n attributes of the frame are converted into their
\* targets; a negative count (EOF) converts none.
attr_scan(buf, f, n) ==
    [fld \in DOMAIN buf |->
        IF \E i \in 1..n : ScanTargets[i][2] = fld
        THEN f[ScanTargets[CHOOSE i \in 1..n : ScanTargets[i][2] = fld][1]]
        ELSE buf[fld]]

\* Mutation: a reply that carries RESOLVE_FLAG_FAIL is retried.
Validate_RetryOnFail(a, buf) ==
    IF buf.transport = "" \/ "FAIL" \in buf.flags THEN "null transport"
    ELSE IF buf.recipient = "" /\ a # "" THEN "null recipient"
    ELSE ""

\* Mutation: the null recipient test is missing.
Validate_NoRecipientCheck(a, buf) ==
    IF buf.transport = "" THEN "null transport" ELSE ""

\* the validation after a complete read: "" = break, else the warning
Validate(a, buf) ==
    IF buf.transport = "" THEN "null transport"
    ELSE IF buf.recipient = "" /\ a # "" THEN "null recipient"
    ELSE ""

\* Mutation: the cache update forgets to copy the flags.
CacheUpdateReply_KeepFlags(lr, buf) ==
    [transport |-> buf.transport, nexthop |-> buf.nexthop,
     recipient |-> buf.recipient, flags |-> lr.flags]

\* Mutation: an empty address is not copied into the cache key.
CacheUpdateAddr_SkipEmpty(la, a) == IF a = "" THEN la ELSE a

\* Update the cache.
CacheUpdateAddr(la, a) == a
CacheUpdateReply(lr, buf) ==
    [transport |-> buf.transport, nexthop |-> buf.nexthop,
     recipient |-> buf.recipient, flags |-> buf.flags]

Init ==
    /\ pc = "idle"
    /\ addr = ""
    /\ alias = FALSE
    /\ reply = resolve_clnt_init
    /\ last_addr = NULL
    /\ last_reply = NullReply
    /\ rewrite_clnt_stream = "null"
    /\ msg_verbose \in BOOLEAN
    /\ errno = "0"
    /\ warned = "none"
    /\ sent = Request(NULL)
    /\ rx = NoFrame
    /\ naccess = 0 /\ nsleep = 0 /\ nrecover = 0
    /\ fresh = resolve_clnt_init
    /\ reused = FALSE
    /\ created = FALSE
    /\ hist = NoHist

Caller == pc \in {"idle", "returned"}

\* resolve_clnt_query entered: lazy initialization and the sanity check.
Enter(a, al) ==
    /\ Caller
    /\ al => a = reply.recipient
    /\ addr' = a
    /\ alias' = al
    /\ last_addr' = LazyInitAddr(last_addr)
    /\ last_reply' = LazyInitReply(last_addr, last_reply)
    /\ pc' = IF SanityCheckFails(al) THEN "panic" ELSE "probe"
    /\ fresh' = resolve_clnt_init
    /\ reused' = (reply # resolve_clnt_init)
    /\ created' = FALSE
    /\ warned' = "none"
    /\ sent' = Request(NULL)
    /\ rx' = NoFrame
    /\ naccess' = 0 /\ nsleep' = 0 /\ nrecover' = 0
    /\ errno' = "0"
    /\ UNCHANGED <<reply, rewrite_clnt_stream, msg_verbose, hist>>

\* Peek at the cache: hit.
ProbeHit ==
    /\ pc = "probe"
    /\ CacheHit(addr, last_addr)
    /\ reply' = CachePeek(reply, last_reply)
    /\ fresh' = CachePeek(fresh, last_reply)
    /\ hist' = [addr |-> addr, reply |-> reply']
    /\ pc' = "returned"
    /\ UNCHANGED <<addr, alias, last_addr, last_reply, rewrite_clnt_stream,
                   msg_verbose, errno, warned, sent, rx,
                   naccess, nsleep, nrecover, reused, created>>

\* Peek at the cache: miss; create the shared stream when there is none.
ProbeMiss ==
    /\ pc = "probe"
    /\ ~CacheHit(addr, last_addr)
    /\ rewrite_clnt_stream' = EnsureStream(rewrite_clnt_stream)
    /\ created' = StreamMissing(rewrite_clnt_stream)
    /\ pc' = "access"
    /\ UNCHANGED <<addr, alias, reply, last_addr, last_reply,
                   msg_verbose, errno, warned, sent, rx,
                   naccess, nsleep, nrecover, fresh, hist, reused>>

\* stream = clnt_stream_access(rewrite_clnt_stream)
Access ==
    /\ pc = "access"
    /\ naccess' = Inc(naccess)
    /\ pc' = "send"
    /\ UNCHANGED <<addr, alias, reply, last_addr, last_reply, rewrite_clnt_stream,
                   msg_verbose, errno, warned, sent, rx, nsleep, nrecover,
                   fresh, hist, reused, created>>

\* clnt_stream_access gives up: the mail system is down.
AccessFatal ==
    /\ pc = "access"
    /\ naccess' = Inc(naccess)
    /\ pc' = "fatal"
    /\ UNCHANGED <<addr, alias, reply, last_addr, last_reply, rewrite_clnt_stream,
                   msg_verbose, errno, warned, sent, rx, nsleep, nrecover, fresh, hist, reused, created>>

\* attr_print and vstream_fflush both succeed.
SendOk ==
    /\ pc = "send"
    /\ sent' = Request(addr)
    /\ pc' = "recv"
    /\ UNCHANGED <<addr, alias, reply, last_addr, last_reply, rewrite_clnt_stream,
                   msg_verbose, errno, warned, rx, naccess, nsleep, nrecover, fresh, hist, reused, created>>

\* Mutation: a failed write gives up and returns to the caller.
SendFail_Return(e) ==
    /\ pc = "send"
    /\ sent' = Request(addr)
    /\ errno' = e
    /\ warned' = IF WarnIO(msg_verbose, e) THEN "bad write" ELSE "none"
    /\ pc' = "returned"
    /\ UNCHANGED <<addr, alias, reply, last_addr, last_reply, rewrite_clnt_stream,
                   msg_verbose, rx, naccess, nsleep, nrecover, fresh, hist, reused, created>>

\* Mutation: the read is attempted although the write failed.
SendFail_ReadsAnyway(e) ==
    /\ pc = "send"
    /\ sent' = Request(addr)
    /\ errno' = e
    /\ warned' = IF WarnIO(msg_verbose, e) THEN "bad write" ELSE "none"
    /\ pc' = "recv"
    /\ UNCHANGED <<addr, alias, reply, last_addr, last_reply, rewrite_clnt_stream,
                   msg_verbose, rx, naccess, nsleep,
                   nrecover, fresh, hist, reused, created>>

\* attr_print or vstream_fflush fails with errno e.
SendFail(e) ==
    /\ pc = "send"
    /\ sent' = Request(addr)
    /\ errno' = e
    /\ warned' = IF WarnIO(msg_verbose, e) THEN "bad write" ELSE "none"
    /\ pc' = "sleep"
    /\ UNCHANGED <<addr, alias, reply, last_addr, last_reply, rewrite_clnt_stream,
                   msg_verbose, rx, naccess, nsleep,
                   nrecover, fresh, hist, reused, created>>

\* attr_scan(...) != 4: n attributes converted, errno e.
RecvFail(f, n, e) ==
    /\ pc = "recv"
    /\ n # 4
    /\ Unread(f, n)
    /\ rx' = [n |-> n, frame |-> f]
    /\ reply' = attr_scan(reply, f, n)
    /\ fresh' = attr_scan(fresh, f, n)
    /\ addr' = AddrAfterScan(alias, addr, reply')
    /\ errno' = e
    /\ warned' = IF WarnIO(msg_verbose, e) THEN "bad read" ELSE "none"
    /\ pc' = "sleep"
    /\ UNCHANGED <<alias, last_addr, last_reply, rewrite_clnt_stream,
                   msg_verbose, sent, naccess, nsleep,
                   nrecover, hist, reused, created>>

\* Mutation: a rejected reply continues the loop without sleep and recovery.
RecvReject_NoRecover(f) ==
    /\ pc = "recv"
    /\ rx' = [n |-> 4, frame |-> f]
    /\ reply' = attr_scan(reply, f, 4)
    /\ fresh' = attr_scan(fresh, f, 4)
    /\ addr' = AddrAfterScan(alias, addr, reply')
    /\ Validate(addr', reply') # ""
    /\ warned' = Validate(addr', reply')
    /\ pc' = "access"
    /\ UNCHANGED <<alias, last_addr, last_reply, rewrite_clnt_stream,
                   msg_verbose, errno, sent, naccess, nsleep, nrecover, hist, reused, created>>

\* Mutation: the cache is updated before the reply is validated.
RecvReject_Caches(f) ==
    /\ pc = "recv"
    /\ rx' = [n |-> 4, frame |-> f]
    /\ reply' = attr_scan(reply, f, 4)
    /\ fresh' = attr_scan(fresh, f, 4)
    /\ addr' = AddrAfterScan(alias, addr, reply')
    /\ Validate(addr', reply') # ""
    /\ warned' = Validate(addr', reply')
    /\ last_addr' = CacheUpdateAddr(last_addr, addr')
    /\ last_reply' = CacheUpdateReply(last_reply, reply')
    /\ pc' = "sleep"
    /\ UNCHANGED <<alias, rewrite_clnt_stream, msg_verbose, errno, sent,
                   naccess, nsleep, nrecover, hist, reused, created>>

\* attr_scan(...) == 4 and the reply fails validation.
RecvReject(f) ==
    /\ pc = "recv"
    /\ rx' = [n |-> 4, frame |-> f]
    /\ reply' = attr_scan(reply, f, 4)
    /\ fresh' = attr_scan(fresh, f, 4)
    /\ addr' = AddrAfterScan(alias, addr, reply')
    /\ Validate(addr', reply') # ""
    /\ warned' = Validate(addr', reply')
    /\ pc' = "sleep"
    /\ UNCHANGED <<alias, last_addr, last_reply, rewrite_clnt_stream,
                   msg_verbose, errno, sent, naccess, nsleep, nrecover, hist, reused, created>>

\* Mutation: a reply that carries RESOLVE_FLAG_FAIL or RESOLVE_FLAG_ERROR is
\* returned but not cached.
RecvAccept_NoCacheOnFail(f) ==
    /\ pc = "recv"
    /\ rx' = [n |-> 4, frame |-> f]
    /\ reply' = attr_scan(reply, f, 4)
    /\ fresh' = attr_scan(fresh, f, 4)
    /\ addr' = AddrAfterScan(alias, addr, reply')
    /\ Validate(addr', reply') = ""
    /\ IF reply'.flags \cap {"FAIL", "ERROR"} # {}
       THEN UNCHANGED <<last_addr, last_reply>>
       ELSE /\ last_addr' = CacheUpdateAddr(last_addr, addr')
            /\ last_reply' = CacheUpdateReply(last_reply, reply')
    /\ hist' = [addr |-> addr', reply |-> reply']
    /\ pc' = "returned"
    /\ UNCHANGED <<alias, rewrite_clnt_stream, msg_verbose,
                   errno, warned, sent, naccess, nsleep, nrecover, reused, created>>

\* attr_scan(...) == 4, the reply passes validation: break, update the cache.
RecvAccept(f) ==
    /\ pc = "recv"
    /\ rx' = [n |-> 4, frame |-> f]
    /\ reply' = attr_scan(reply, f, 4)
    /\ fresh' = attr_scan(fresh, f, 4)
    /\ addr' = AddrAfterScan(alias, addr, reply')
    /\ Validate(addr', reply') = ""
    /\ last_addr' = CacheUpdateAddr(last_addr, addr')
    /\ last_reply' = CacheUpdateReply(last_reply, reply')
    /\ hist' = [addr |-> addr', reply |-> reply']
    /\ pc' = "returned"
    /\ UNCHANGED <<alias, rewrite_clnt_stream, msg_verbose,
                   errno, warned, sent, naccess, nsleep, nrecover, reused, created>>

\* sleep(10)
Sleep ==
    /\ pc = "sleep"
    /\ nsleep' = Inc(nsleep)
    /\ pc' = "recover"
    /\ UNCHANGED <<addr, alias, reply, last_addr, last_reply, rewrite_clnt_stream,
                   msg_verbose, errno, warned, sent, rx, naccess,
                   nrecover, fresh, hist, reused, created>>

\* Mutation: the loop gives up after a recovery that follows an earlier one.
Recover_GiveUp ==
    /\ pc = "recover"
    /\ nrecover' = Inc(nrecover)
    /\ errno' = "0" /\ warned' = "none" /\ sent' = Request(NULL) /\ rx' = NoFrame
    /\ pc' = IF nrecover >= 1 THEN "fatal" ELSE "access"
    /\ UNCHANGED <<addr, alias, reply, last_addr, last_reply, rewrite_clnt_stream,
                   msg_verbose, naccess, nsleep, fresh, hist, reused, created>>

\* clnt_stream_recover(rewrite_clnt_stream); the iteration is over.
Recover ==
    /\ pc = "recover"
    /\ nrecover' = Inc(nrecover)
    /\ errno' = "0" /\ warned' = "none" /\ sent' = Request(NULL) /\ rx' = NoFrame
    /\ pc' = "access"
    /\ UNCHANGED <<addr, alias, reply, last_addr, last_reply, rewrite_clnt_stream,
                   msg_verbose, naccess, nsleep, fresh, hist, reused, created>>

\* The TEST driver's resolve(): reply->flags &= ~fp->flag for the known flags,
\* unless RESOLVE_FLAG_FAIL is set.
resolve_flag_table ==
    {"FINAL", "ROUTED", "ERROR", "FAIL", "CLASS_LOCAL", "CLASS_ALIAS",
     "CLASS_VIRTUAL", "CLASS_RELAY", "CLASS_DEFAULT"}

DriverFlags(fl) == IF "FAIL" \in fl THEN fl ELSE fl \ resolve_flag_table

\* Mutation: the cache shares the caller's buffer, so the driver's clearing of
\* flag bits shows in the cached entry.
DriverPrint_Aliased ==
    /\ pc = "returned"
    /\ reply' = [reply EXCEPT !.flags = DriverFlags(reply.flags)]
    /\ last_reply' = [last_reply EXCEPT !.flags = DriverFlags(reply.flags)]
    /\ pc' = "idle"
    /\ warned' = "none" /\ sent' = Request(NULL) /\ rx' = NoFrame
    /\ naccess' = 0 /\ nsleep' = 0 /\ nrecover' = 0
    /\ fresh' = resolve_clnt_init /\ reused' = FALSE /\ created' = FALSE
    /\ addr' = "" /\ alias' = FALSE
    /\ UNCHANGED <<last_addr, rewrite_clnt_stream, msg_verbose, errno, hist>>

DriverPrint ==
    /\ pc = "returned"
    /\ reply' = [reply EXCEPT !.flags = DriverFlags(reply.flags)]
    /\ pc' = "idle"
    /\ warned' = "none" /\ sent' = Request(NULL) /\ rx' = NoFrame
    /\ naccess' = 0 /\ nsleep' = 0 /\ nrecover' = 0
    /\ fresh' = resolve_clnt_init /\ reused' = FALSE /\ created' = FALSE
    /\ addr' = "" /\ alias' = FALSE
    /\ UNCHANGED <<last_addr, last_reply, rewrite_clnt_stream,
                   msg_verbose, errno, hist>>

\* The caller owns the reply buffer and overwrites one member between queries.
CallerWrite(fld, v) ==
    /\ Caller
    /\ reply' = [reply EXCEPT ![fld] = v]
    /\ reply' # reply
    /\ pc' = "idle"
    /\ warned' = "none" /\ sent' = Request(NULL) /\ rx' = NoFrame
    /\ naccess' = 0 /\ nsleep' = 0 /\ nrecover' = 0
    /\ fresh' = resolve_clnt_init /\ reused' = FALSE /\ created' = FALSE
    /\ addr' = "" /\ alias' = FALSE
    /\ UNCHANGED <<last_addr, last_reply, rewrite_clnt_stream,
                   msg_verbose, errno, hist>>

\* The sibling rewrite client creates the shared stream first.
RewriteClnt ==
    /\ Caller
    /\ rewrite_clnt_stream = "null"
    /\ rewrite_clnt_stream' = "created"
    /\ UNCHANGED <<pc, addr, alias, reply, last_addr, last_reply,
                   msg_verbose, errno, warned, sent, rx, naccess, nsleep, nrecover, fresh, hist, reused, created>>

Next ==
    \/ \E a \in Addrs, al \in BOOLEAN : Enter(a, al)
    \/ ProbeHit
    \/ ProbeMiss
    \/ Access
    \/ AccessFatal
    \/ SendOk
    \/ \E e \in Errnos : SendFail(e)
    \/ \E f \in Frames, n \in -1..3, e \in Errnos : RecvFail(f, n, e)
    \/ \E f \in Frames : RecvReject(f)
    \/ \E f \in Frames : RecvAccept(f)
    \/ Sleep
    \/ Recover
    \/ DriverPrint
    \/ \E v \in Transports : CallerWrite("transport", v)
    \/ \E v \in Nexthops : CallerWrite("nexthop", v)
    \/ \E v \in Recipients : CallerWrite("recipient", v)
    \/ RewriteClnt

Spec == Init /\ [][Next]_vars

\* A client that issues one query after another while the mail system stays
\* up: the steps of the program are taken, and the daemon lets a write and
\* flush succeed, and delivers a reply that passes validation, again and again.
\* Logging is not verbose and each kind of failure leaves one errno.
InitLive == Init /\ msg_verbose = FALSE

NextLive ==
    \/ \E a \in Addrs, al \in BOOLEAN : Enter(a, al)
    \/ ProbeHit
    \/ ProbeMiss
    \/ Access
    \/ SendOk
    \/ SendFail("EPIPE")
    \/ \E f \in Frames, n \in -1..3 : RecvFail(f, n, "EIO")
    \/ \E f \in Frames : RecvReject(f)
    \/ \E f \in Frames : RecvAccept(f)
    \/ Sleep
    \/ Recover

ProgramStep == ProbeHit \/ ProbeMiss \/ Access \/ Sleep \/ Recover

LiveSpec ==
    /\ InitLive
    /\ [][NextLive]_vars
    /\ WF_vars(ProgramStep)
    /\ SF_vars(SendOk)
    /\ SF_vars(\E f \in Frames : RecvAccept(f))

(***************************************************************************)
(* Properties.                                                             *)
(***************************************************************************)

\* The cache as a value: a cache that is not allocated yet reads as empty.
Cached ==
    IF last_addr = NULL THEN <<"", resolve_clnt_init>> ELSE <<last_addr, last_reply>>

\* A step that enters resolve_clnt_query, and one that returns from it.
EnterStep == Caller /\ pc' \in {"probe", "panic"}
ReturnStep == pc \in {"probe", "recv"} /\ pc' = "returned"

\* C1: whenever resolve_clnt_query returns, by the cache-hit branch or after
\* a round trip, reply.transport is non-empty, and reply.recipient is
\* non-empty when the address is non-empty.
C1_ReturnedReplyValid ==
    pc = "returned" =>
        /\ reply.transport # ""
        /\ addr # "" => reply.recipient # ""

\* C1 witness: a query for a non-empty address returned after failed attempts.
C1_Witness ==
    /\ pc = "returned" /\ addr # "" /\ nsleep >= 1 /\ nrecover >= 1
    /\ reply.transport # "" /\ reply.recipient # ""

\* C2 as stated: for every address, a query that follows a returned query for
\* the same address returns the same four fields and does no network I/O.
C2_Original ==
    [][(ReturnStep /\ hist.addr = addr) =>
        /\ reply' = hist.reply
        /\ naccess' = 0 /\ sent' = Request(NULL) /\ rx' = NoFrame]_vars

\* C2 amended: for every non-empty address, a query that follows a returned
\* query for the same address returns the same four fields and does no
\* network I/O: no access, no request written, no reply read.
C2_RepeatIsCacheHit ==
    [][(ReturnStep /\ addr # "" /\ hist.addr = addr) =>
        /\ pc = "probe"
        /\ reply' = hist.reply
        /\ naccess' = 0 /\ sent' = Request(NULL) /\ rx' = NoFrame
        /\ nsleep' = 0 /\ nrecover' = 0]_vars

\* C2 witness: the second of two queries for the same non-empty address has
\* returned the first one's four fields from the cache, into a reused buffer.
C2_Witness ==
    /\ pc = "returned" /\ addr # "" /\ naccess = 0 /\ reused
    /\ hist.addr = addr /\ reply = hist.reply /\ "ERROR" \in reply.flags

\* C3: a query whose address is the storage of reply.recipient panics before
\* a stream is created or accessed, before a request is written, and with the
\* reply buffer and the cached entry as they were; nothing runs after the
\* panic.  This includes an address that is the cached key.
C3_AliasPanics ==
    [][/\ (EnterStep /\ alias') =>
            /\ pc' = "panic"
            /\ reply' = reply
            /\ rewrite_clnt_stream' = rewrite_clnt_stream
            /\ naccess' = 0 /\ sent' = Request(NULL) /\ rx' = NoFrame
            /\ Cached' = Cached
            /\ last_addr # NULL => (last_addr' = last_addr /\ last_reply' = last_reply)
       /\ pc # "panic"]_vars

\* C3 witness: the panic, for an address that is the cached key.
C3_Witness ==
    /\ pc = "panic" /\ alias /\ addr # "" /\ addr = last_addr
    /\ reply.recipient = addr /\ naccess = 0

\* A step that ends a query, and the ways the process can exit.
QueryOver == {"returned", "fatal", "panic"}
LoopContinues ==
    /\ (pc = "send" => pc' \in {"recv", "sleep"})
    /\ (pc = "recv" /\ pc' # "returned" => pc' = "sleep")
    /\ (pc = "recv" /\ pc' = "returned" =>
            /\ rx'.n = 4
            /\ rx'.frame.transport # ""
            /\ (addr = "" \/ rx'.frame.recipient # ""))
    /\ (pc = "sleep" => pc' = "recover")
    /\ (pc = "recover" => pc' = "access")

\* C4 as stated: a query ends only by returning or by a fatal exit, the
\* exit comes only from the stream collaborator (clnt_stream_access), and
\* every failure leads to another iteration.
C4_Original ==
    [][/\ (pc' \in QueryOver /\ pc' # pc) =>
            (pc' = "returned" \/ (pc' = "fatal" /\ pc = "access"))
       /\ LoopContinues]_vars

\* C4 amended: a query ends by returning, by a fatal exit that comes only
\* from the stream collaborator, or by the panic of the sanity check at
\* entry; every write, flush, read, shape or validation failure leads to
\* another iteration and never to a return.
C4_TerminalStates ==
    [][/\ (pc' \in QueryOver /\ pc' # pc) =>
            \/ pc' = "returned"
            \/ pc' = "fatal" /\ pc = "access"
            \/ pc' = "panic" /\ Caller /\ alias'
       /\ (pc' = "returned" => pc \in {"probe", "recv"})
       /\ LoopContinues]_vars

\* C4 witness: the fatal exit, reached from the collaborator after failed
\* iterations.
C4_Witness ==
    pc = "fatal" /\ nsleep >= 1 /\ nrecover >= 1 /\ naccess >= 2

\* C6: between queries the cache is empty or holds the address and the four
\* output fields of the most recent query that returned; once a query has
\* returned, the cache key is that query's address.
C6_CacheHoldsMostRecent ==
    Caller =>
        /\ \/ last_addr \in {NULL, ""}
           \/ last_addr = hist.addr /\ last_reply = hist.reply
        /\ hist.addr # NULL => (last_addr = hist.addr /\ last_reply = hist.reply)
        /\ hist.addr = NULL => last_addr = NULL

\* C6 witness: a query for "b" returned from a round trip on a reused buffer
\* and its result is the cached entry.
C6_Witness ==
    /\ pc = "returned" /\ addr = "b" /\ naccess >= 1 /\ reused
    /\ last_addr = "b" /\ last_reply = reply /\ "FAIL" \in last_reply.flags

\* C7: the cache changes only in the step that accepts a validated reply,
\* and then to the address and that reply; a failed iteration leaves it as
\* it was.
C7_CacheWrittenAfterValidation ==
    [][/\ Cached' # Cached =>
            /\ pc = "recv" /\ pc' = "returned"
            /\ rx'.n = 4
            /\ rx'.frame.transport # ""
            /\ (addr = "" \/ rx'.frame.recipient # "")
            /\ last_addr' = addr
            /\ last_reply' = rx'.frame
       /\ pc' \in {"sleep", "recover", "access", "send", "recv"} =>
            (last_addr' = last_addr /\ last_reply' = last_reply)]_vars

\* C7 witness: a rejected reply sits in the reply buffer while the cache
\* still holds the entry of an earlier query.
C7_Witness ==
    /\ pc = "sleep" /\ rx.n = 4 /\ reply.transport = "" /\ addr = "b"
    /\ last_addr = "a" /\ last_reply.transport # "" /\ last_reply # reply

\* C8: a complete reply with flags set (FAIL, ERROR, unknown bits), a
\* non-empty transport and a recipient that passes validation is accepted in
\* the iteration that reads it: no warning, no sleep, no recovery, and the
\* flags reach the caller unchanged.
C8_FlaggedReplyAccepted ==
    [][(/\ pc = "recv" /\ rx'.n = 4
        /\ rx'.frame.flags # {}
        /\ rx'.frame.transport # ""
        /\ (addr = "" \/ rx'.frame.recipient # "")) =>
            /\ pc' = "returned"
            /\ reply'.flags = rx'.frame.flags
            /\ warned' = "none"
            /\ naccess' = naccess /\ nsleep' = nsleep /\ nrecover' = nrecover]_vars

\* C8 witness: a first reply carrying flags was returned at once.
C8_Witness ==
    /\ pc = "returned" /\ rx.n = 4 /\ naccess = 1 /\ nsleep = 0 /\ nrecover = 0
    /\ rx.frame.flags = {"ERROR", "UNKNOWN"} /\ reply.flags = {"ERROR", "UNKNOWN"}

\* C9: a query with the empty address never takes the cache-hit branch and
\* returns only after a round trip; a complete reply with a non-empty
\* transport is accepted for it whatever the recipient, one with an empty
\* transport is rejected and retried.
C9_EmptyAddress ==
    [][/\ (pc = "probe" /\ addr = "" => pc' = "access")
       /\ (pc' = "returned" /\ addr = "" => pc = "recv" /\ naccess' >= 1)
       /\ (pc = "recv" /\ addr = "" /\ rx'.n = 4 /\ rx'.frame.transport # "" =>
                pc' = "returned" /\ reply' = rx'.frame)
       /\ (pc = "recv" /\ addr = "" /\ rx'.n = 4 /\ rx'.frame.transport = "" =>
                pc' = "sleep" /\ warned' = "null transport")]_vars

\* C9 witness: a query with the empty address returned an empty recipient
\* after a retry, with the empty string as the cache key.
C9_Witness ==
    /\ pc = "returned" /\ addr = "" /\ reply.recipient = "" /\ reply.transport # ""
    /\ nsleep >= 1 /\ last_addr = ""

\* C10: what a query returns does not depend on what the reply buffer held
\* at entry: it is what the same query returns on a fresh buffer.
C10_ReusedBufferAsFresh ==
    pc = "returned" => reply = fresh

\* C10 witness: a query entered with a reused buffer returned after failed
\* iterations.
C10_Witness ==
    pc = "returned" /\ reused /\ nsleep >= 1 /\ reply = fresh

\* A failed attempt is possible in the state.
CanFail ==
    \/ ENABLED (\E e \in Errnos : SendFail(e))
    \/ ENABLED (\E f \in Frames, n \in -1..3, e \in Errnos : RecvFail(f, n, e))

\* C5: the loop has no bound on the number of attempts: after any number of
\* attempts the next one can fail again; and when the daemon again and again
\* lets a write and flush succeed and delivers a reply that passes
\* validation, every query that passed the sanity check returns.
C5_RetriesUntilSuccess ==
    /\ [](pc \in {"send", "recv"} => CanFail)
    /\ (pc = "probe") ~> (pc = "returned")

\* C5 witness: a query is in yet another failed attempt after MaxCount or
\* more complete failed iterations.
C5_Witness ==
    /\ pc = "sleep" /\ naccess = MaxCount /\ nsleep = MaxCount
    /\ nrecover = MaxCount /\ hist.addr = NULL

\* A step of the caller that changes its reply buffer between queries.
CallerChangesReply == Caller /\ pc' = "idle" /\ reply' # reply

\* C11: the cache holds copies of the caller's data: a change the caller
\* makes to its reply buffer after a query (the driver clearing flag bits, or
\* one string overwritten) leaves last_addr and last_reply as they were, and
\* a following cache hit returns the four fields as they were resolved.
C11_CacheOwnsCopies ==
    [][/\ CallerChangesReply =>
            /\ last_addr' = last_addr /\ last_reply' = last_reply
            /\ hist' = hist
       /\ (pc = "probe" /\ pc' = "returned") =>
            /\ reply' = hist.reply
            /\ last_addr' = hist.addr /\ last_reply' = hist.reply]_vars

\* C11 witness: a query for the cached address is at the probe with a reply
\* buffer whose flags and recipient the caller has changed since.
C11_Witness ==
    /\ pc = "probe" /\ addr # "" /\ addr = last_addr
    /\ reply.flags # last_reply.flags /\ reply.recipient # last_reply.recipient
    /\ last_reply = hist.reply

\* C12: every failed iteration, whatever its cause, performs one sleep and
\* then one recovery before the next access; a query that returns after k
\* failed attempts has performed k sleeps, k recoveries and k+1 accesses, and
\* a miss whose first reply is valid performs no sleep and no recovery.  (The
\* counters stop at MaxCount, where they say "MaxCount or more".)
C12_SleepThenRecover ==
    /\ [](/\ pc \in {"send", "recv", "sleep"} =>
                /\ nsleep = nrecover
                /\ naccess < MaxCount => nsleep = naccess - 1
                /\ naccess = MaxCount => nsleep >= MaxCount - 1
          /\ pc = "recover" =>
                /\ naccess < MaxCount => (nsleep = naccess /\ nrecover = naccess - 1)
                /\ naccess = MaxCount => (nsleep = MaxCount /\ nrecover >= MaxCount - 1)
          /\ pc = "access" => (nsleep = naccess /\ nrecover = naccess)
          /\ (pc = "returned" /\ naccess >= 1) =>
                /\ nsleep = nrecover
                /\ naccess < MaxCount => nsleep = naccess - 1
                /\ naccess = MaxCount => nsleep >= MaxCount - 1)
    /\ [][/\ (pc \in {"send", "recv"} /\ pc' \notin {"recv", "returned"}) =>
                /\ pc' = "sleep"
                /\ naccess' = naccess /\ nsleep' = nsleep /\ nrecover' = nrecover
          /\ pc = "sleep" =>
                /\ pc' = "recover"
                /\ nsleep < MaxCount => nsleep' = nsleep + 1
                /\ naccess' = naccess /\ nrecover' = nrecover
          /\ pc = "recover" =>
                /\ pc' = "access"
                /\ nrecover < MaxCount => nrecover' = nrecover + 1
                /\ naccess' = naccess /\ nsleep' = nsleep
          /\ pc' = "send" => pc \in {"access"}
          /\ (pc = "access" /\ pc' = "send") =>
                /\ naccess < MaxCount => naccess' = naccess + 1
                /\ nsleep' = nsleep /\ nrecover' = nrecover]_vars

\* C12 witness: a query returned after one failed attempt: two accesses, one
\* sleep, one recovery.
C12_Witness ==
    /\ pc = "returned" /\ naccess = 2 /\ nsleep = 1 /\ nrecover = 1

\* C13: after a failed write or flush the iteration goes on to the sleep and
\* the recovery without attempting a read and without touching the reply
\* buffer; a reply is read only in an iteration that began with an access
\* and whose request was written and flushed without error.
C13_NoReadAfterFailedWrite ==
    [][/\ (pc = "send" /\ pc' # "recv") =>
            /\ pc' = "sleep" /\ errno' # "0"
            /\ reply' = reply /\ rx' = NoFrame
       /\ (pc \in {"sleep", "recover"} /\ rx = NoFrame) =>
            /\ pc' = IF pc = "sleep" THEN "recover" ELSE "access"
            /\ reply' = reply /\ rx' = NoFrame
       /\ pc' = "recv" =>
            /\ pc = "send"
            /\ sent' = [request |-> "resolve", address |-> addr]
            /\ errno' = "0" /\ warned' = "none"
       /\ pc' = "send" => (pc = "access" /\ sent' = Request(NULL))
       /\ (rx' # rx /\ rx' # NoFrame) =>
            /\ pc = "recv" /\ naccess >= 1
            /\ sent = [request |-> "resolve", address |-> addr]
            /\ errno = "0"]_vars

\* C13 witness: an iteration whose write failed has slept without a read, on
\* a reused buffer.
C13_Witness ==
    /\ pc = "recover" /\ rx = NoFrame /\ errno = "EPIPE" /\ reused
    /\ nsleep >= 1 /\ sent.address = addr

\* C14: a query that returns after a round trip returns the four fields of
\* the frame accepted in its last iteration, and caches them; nothing an
\* earlier rejected or partly read reply left behind survives.
C14_ReturnsAcceptedFrame ==
    (pc = "returned" /\ naccess >= 1) =>
        /\ rx.n = 4
        /\ reply = rx.frame
        /\ last_reply = rx.frame
        /\ last_addr = addr

\* C14 witness: after a failed iteration a query returned an accepted frame
\* that has no next hop and no flags.
C14_Witness ==
    /\ pc = "returned" /\ nsleep >= 1 /\ rx.n = 4
    /\ reply = rx.frame /\ reply.nexthop = "" /\ reply.flags = {}

C16_StreamCreatedOnce ==
    [][/\ (created' /\ ~created) =>
            /\ pc = "probe" /\ pc' = "access"
            /\ ~(addr # "" /\ addr = last_addr)
            /\ rewrite_clnt_stream = "null" /\ rewrite_clnt_stream' = "created"
       /\ rewrite_clnt_stream # "null" =>
            (rewrite_clnt_stream' = rewrite_clnt_stream /\ (created' => created))
       /\ (pc = "probe" /\ pc' = "returned") =>
            /\ rewrite_clnt_stream' = rewrite_clnt_stream /\ ~created'
            /\ naccess' = 0 /\ nsleep' = 0 /\ nrecover' = 0
            /\ last_addr' = last_addr /\ last_reply' = last_reply]_vars

\* C16 witness: the first query of the process missed the cache and found
\* the stream the rewrite client had created.
C16_Witness ==
    /\ pc = "access" /\ hist.addr = NULL /\ ~created
    /\ rewrite_clnt_stream = "created"

\* C17: a failed write or read is warned about exactly when logging is
\* verbose or errno is neither EPIPE nor ENOENT; a reply rejected by
\* validation is always warned about; an iteration without a warning still
\* sleeps and recovers.
C17_Warnings ==
    /\ [](pc \in {"sleep", "recover"} =>
            /\ errno # "0" \/ rx.n = 4
            /\ errno # "0" =>
                /\ rx.n # 4
                /\ warned # "none" <=> (msg_verbose \/ errno \notin {"EPIPE", "ENOENT"})
                /\ warned \in {"none", IF rx = NoFrame THEN "bad write" ELSE "bad read"}
            /\ rx.n = 4 =>
                /\ errno = "0"
                /\ warned = IF reply.transport = "" THEN "null transport"
                                                 ELSE "null recipient")
    /\ [][/\ (pc = "sleep" /\ warned = "none") =>
                (pc' = "recover" /\ (nsleep < MaxCount => nsleep' = nsleep + 1))
          /\ (pc = "recover" /\ warned = "none") =>
                (pc' = "access" /\ (nrecover < MaxCount => nrecover' = nrecover + 1))]_vars

\* C17 witness: a failed read with ENOENT, not verbose, went unwarned and the
\* iteration has slept.
C17_Witness ==
    /\ pc = "recover" /\ warned = "none" /\ errno = "ENOENT" /\ ~msg_verbose
    /\ rx # NoFrame /\ nsleep >= 1

\* C18: a query with the empty address that returns leaves the empty string
\* as the cache key, whatever the key was; the query after it, for any
\* address, misses and does a round trip.
C18_EmptyAddressEmptiesCache ==
    [][/\ (pc = "recv" /\ pc' = "returned" /\ addr = "") => last_addr' = ""
       /\ (pc = "probe" /\ hist.addr = "") => (last_addr = "" /\ pc' = "access")
       /\ (ReturnStep /\ hist.addr = "") => (pc = "recv" /\ naccess' >= 1)]_vars

\* C18 witness: a query for "a" that follows a returned query with the empty
\* address is reading a reply.
C18_Witness ==
    /\ pc = "recv" /\ addr = "a" /\ hist.addr = "" /\ last_addr = ""
    /\ last_reply.transport # "" /\ reused /\ naccess >= 1

\* C19: an accepted reply with FAIL or ERROR set is cached, and a query for
\* the same non-empty address right after it returns the same four fields,
\* flags included, from the cache without any I/O.
C19_FailureReplyCached ==
    [][/\ (pc = "recv" /\ pc' = "returned"
            /\ reply'.flags \cap {"FAIL", "ERROR"} # {}) =>
                (last_addr' = addr /\ last_reply' = reply')
       /\ (ReturnStep /\ addr # "" /\ hist.addr = addr
            /\ hist.reply.flags \cap {"FAIL", "ERROR"} # {}) =>
                /\ pc = "probe"
                /\ reply' = hist.reply
                /\ reply'.flags \cap {"FAIL", "ERROR"} # {}
                /\ naccess' = 0 /\ rx' = NoFrame /\ sent' = Request(NULL)]_vars

\* C19 witness: a cache hit returned a reply with RESOLVE_FLAG_FAIL.
C19_Witness ==
    /\ pc = "returned" /\ naccess = 0 /\ addr # "" /\ "FAIL" \in reply.flags
    /\ reply = hist.reply /\ reply = last_reply /\ rx = NoFrame
====
